---- MODULE Spec2Model ----
(***************************************************************************)
(* Model of src/lib/server/process.ts (class ImageVideoProcessor): the     *)
(* layout decision, the two composites, the concurrent frame sequencing    *)
(* and the streaming encoder adapter.                                      *)
(***************************************************************************)
EXTENDS Integers, Sequences, FiniteSets, TLC

(***************************************************************************)
(* Bounds of the model.                                                    *)
(***************************************************************************)
\* largest number of image pairs of one call
MaxPairs == 3
\* largest number of frame files an earlier job left in the folder
MaxStale == 2
\* largest number of output chunks the encoder pipes before it exits
MaxChunks == 2
\* largest image width / height drawn for the layout and composite functions
MaxWidth == 11
MaxHeight == 18

(***************************************************************************)
(* JavaScript numbers are IEEE-754 binary64: every operation returns the   *)
(* exact result rounded to 53 significant bits, to nearest, ties to even.  *)
(* A number x >= 0 is held exactly, in fixed point, as a sequence d of     *)
(* Limbs digits in base Base: x = d[1] + d[2]/Base + d[3]/Base^2 + ...     *)
(* The bits of d are numbered from 0, the most significant bit of d[1].    *)
(* The representation is exact for every number from 2^-17 up to Base that *)
(* has 53 significant bits, which covers every ratio of image dimensions   *)
(* the model draws.                                                        *)
(***************************************************************************)
Precision == 53
LimbBits == 10
Limbs == 8
Base == 2 ^ LimbBits

FZero == [i \in 1..Limbs |-> 0]

\* the number of bits of v >= 1
BitLen(v) == CHOOSE n \in 1..LimbBits : 2 ^ (n - 1) <= v /\ v < 2 ^ n

\* the index of the leading 1 bit of d # FZero
LeadingBit(d) ==
    LET i == CHOOSE k \in 1..Limbs : d[k] # 0 /\ \A l \in 1..(k - 1) : d[l] = 0
    IN  LimbBits * (i - 1) + (LimbBits - BitLen(d[i]))

\* d + u * Base^(1-j), carrying to the left
RECURSIVE AddAt(_, _, _)
AddAt(d, j, u) ==
    IF j = 0 THEN d
    ELSE IF d[j] + u < Base THEN [d EXCEPT ![j] = d[j] + u]
    ELSE AddAt([d EXCEPT ![j] = d[j] + u - Base], j - 1, 1)

\* d, of which sticky says that the exact value has non-zero digits after
\* d[Limbs], rounded to Precision significant bits
RoundNearestEven(d, sticky) ==
    IF d = FZero THEN d
    ELSE LET q == LeadingBit(d) + Precision - 1      \* the last bit kept
             j == q \div LimbBits + 1
             U == 2 ^ (LimbBits - 1 - (q % LimbBits))  \* its weight in d[j]
             low == d[j] % U
             after == \E i \in (j + 1)..Limbs : d[i] # 0
             roundBit == IF U >= 2 THEN low >= U \div 2
                         ELSE d[j + 1] >= Base \div 2
             rest == IF U >= 2 THEN (low % (U \div 2)) # 0 \/ after \/ sticky
                     ELSE (d[j + 1] % (Base \div 2)) # 0
                          \/ (\E i \in (j + 2)..Limbs : d[i] # 0) \/ sticky
             lsb == (d[j] \div U) % 2
             kept == [i \in 1..Limbs |->
                        IF i < j THEN d[i] ELSE IF i = j THEN d[j] - low ELSE 0]
         IN  IF roundBit /\ (rest \/ lsb = 1) THEN AddAt(kept, j, U) ELSE kept

\* the next n digits of r / b (r < b), and the remainder left
RECURSIVE DivLimbs(_, _, _)
DivLimbs(r, b, n) ==
    IF n = 0 THEN [limbs |-> <<>>, rem |-> r]
    ELSE LET rest == DivLimbs((r * Base) % b, b, n - 1)
         IN  [limbs |-> <<(r * Base) \div b>> \o rest.limbs, rem |-> rest.rem]

\* a / b for integers a >= 0, b > 0 with a / b < Base (the operator / of the source)
FDiv(a, b) ==
    LET f == DivLimbs(a % b, b, Limbs - 1)
    IN  RoundNearestEven(<<a \div b>> \o f.limbs, f.rem # 0)

\* x < y
FLess(x, y) ==
    \E i \in 1..Limbs : x[i] < y[i] /\ \A k \in 1..(i - 1) : x[k] = y[k]

\* digits 1..k of x - y (x >= y), borrowing from the right
RECURSIVE SubLimbs(_, _, _, _)
SubLimbs(x, y, k, borrow) ==
    IF k = 0 THEN <<>>
    ELSE IF x[k] - y[k] - borrow < 0
         THEN SubLimbs(x, y, k - 1, 1) \o <<x[k] - y[k] - borrow + Base>>
         ELSE SubLimbs(x, y, k - 1, 0) \o <<x[k] - y[k] - borrow>>

\* Math.abs(x - y)
FAbsDiff(x, y) ==
    IF FLess(x, y) THEN RoundNearestEven(SubLimbs(y, x, Limbs, 0), FALSE)
    ELSE RoundNearestEven(SubLimbs(x, y, Limbs, 0), FALSE)

Max(a, b) == IF a >= b THEN a ELSE b

(***************************************************************************)
(* Values.  An image buffer is [id, width, height]: id tells the buffers   *)
(* apart, and a width or height of 0 stands for metadata that sharp        *)
(* reports as undefined.  A call returns Return(v) or throws Throw(e).     *)
(***************************************************************************)
NoError == "none"
InvalidMetadata == "Invalid image metadata"
CompositionFailure == "composite failed"
FrameWriteFailure == "writeFile failed"
MkdirFailure == "mkdir failed"
EncodeInitiationFailure == "ffmpeg could not be spawned"
EncodeRuntimeFailure == "ffmpeg exited with an error"

HORIZONTAL == "horizontal"
VERTICAL == "vertical"

Image(id, w, h) == [id |-> id, width |-> w, height |-> h]

Return(v) == [error |-> NoError, value |-> v]
Throw(e) == [error |-> e]

\* sharp(image).metadata()
Metadata(image) == [width |-> image.width, height |-> image.height]

GetImageDimensions(image) ==
    LET metadata == Metadata(image)
    IN  IF metadata.width = 0 \/ metadata.height = 0
        THEN Throw(InvalidMetadata)
        ELSE Return([width |-> metadata.width,
                     height |-> metadata.height,
                     aspectRatio |-> FDiv(metadata.width, metadata.height)])

DetermineMergeDirection(image1Buffer, image2Buffer) ==
    LET dims1 == GetImageDimensions(image1Buffer)
        dims2 == GetImageDimensions(image2Buffer)
    IN  IF dims1.error # NoError THEN Throw(dims1.error)
        ELSE IF dims2.error # NoError THEN Throw(dims2.error)
        ELSE LET img1Dims == dims1.value
                 img2Dims == dims2.value
                 horizontalAspectRatio ==
                     FDiv(img1Dims.width + img2Dims.width,
                          Max(img1Dims.height, img2Dims.height))
                 verticalAspectRatio ==
                     FDiv(Max(img1Dims.width, img2Dims.width),
                          img1Dims.height + img2Dims.height)
                 idealAspectRatio == FDiv(9, 16)
                 horizontalDiff == FAbsDiff(horizontalAspectRatio, idealAspectRatio)
                 verticalDiff == FAbsDiff(verticalAspectRatio, idealAspectRatio)
             IN  Return(IF FLess(horizontalDiff, verticalDiff)
                        THEN HORIZONTAL ELSE VERTICAL)

\* Math.floor(n / 2) for an integer n >= 0
FloorHalf(n) == n \div 2

\* mergeSideBySide without the vertical centring: both images at the top
MergeSideBySideTopAligned(image1, image2) ==
    IF image1.width = 0 \/ image2.width = 0 \/ image1.height = 0 \/ image2.height = 0
    THEN Throw(InvalidMetadata)
    ELSE Return([width |-> image1.width + image2.width,
                 height |-> Max(image1.height, image2.height),
                 composite |->
                   << [input |-> image1.id, left |-> 0, top |-> 0],
                      [input |-> image2.id, left |-> image1.width, top |-> 0] >>])

\* mergeTopAndBottom centring with the rounding up instead of down
MergeTopAndBottomRoundedUp(image1, image2) ==
    IF image1.width = 0 \/ image2.width = 0 \/ image1.height = 0 \/ image2.height = 0
    THEN Throw(InvalidMetadata)
    ELSE LET totalWidth == Max(image1.width, image2.width)
         IN  Return([width |-> totalWidth,
                     height |-> image1.height + image2.height,
                     composite |->
                       << [input |-> image1.id,
                           left |-> (totalWidth - image1.width + 1) \div 2,
                           top |-> 0],
                          [input |-> image2.id,
                           left |-> (totalWidth - image2.width + 1) \div 2,
                           top |-> image1.height] >>])

\* the buffer sharp({create}).composite([...]).jpeg().toBuffer() yields: the
\* canvas and where each input is placed on it
MergeSideBySide(image1, image2) ==
    LET img1Meta == Metadata(image1)
        img2Meta == Metadata(image2)
    IN  IF img1Meta.width = 0 \/ img2Meta.width = 0
           \/ img1Meta.height = 0 \/ img2Meta.height = 0
        THEN Throw(InvalidMetadata)
        ELSE LET totalHeight == Max(img1Meta.height, img2Meta.height)
             IN  Return([width |-> img1Meta.width + img2Meta.width,
                         height |-> totalHeight,
                         composite |->
                           << [input |-> image1.id, left |-> 0,
                               top |-> FloorHalf(totalHeight - img1Meta.height)],
                              [input |-> image2.id, left |-> img1Meta.width,
                               top |-> FloorHalf(totalHeight - img2Meta.height)] >>])

MergeTopAndBottom(image1, image2) ==
    LET img1Meta == Metadata(image1)
        img2Meta == Metadata(image2)
    IN  IF img1Meta.width = 0 \/ img2Meta.width = 0
           \/ img1Meta.height = 0 \/ img2Meta.height = 0
        THEN Throw(InvalidMetadata)
        ELSE LET totalWidth == Max(img1Meta.width, img2Meta.width)
             IN  Return([width |-> totalWidth,
                         height |-> img1Meta.height + img2Meta.height,
                         composite |->
                           << [input |-> image1.id,
                               left |-> FloorHalf(totalWidth - img1Meta.width),
                               top |-> 0],
                              [input |-> image2.id,
                               left |-> FloorHalf(totalWidth - img2Meta.width),
                               top |-> img1Meta.height] >>])

\* the switch with the two cases exchanged
MergeWithSwapped(direction, image1, image2) ==
    IF direction = HORIZONTAL THEN MergeTopAndBottom(image1, image2)
    ELSE IF direction = VERTICAL THEN MergeSideBySide(image1, image2)
    ELSE Throw("Invalid merge direction")

\* the switch of mergeImages on the direction chosen
MergeWith(direction, image1, image2) ==
    IF direction = HORIZONTAL THEN MergeSideBySide(image1, image2)
    ELSE IF direction = VERTICAL THEN MergeTopAndBottom(image1, image2)
    ELSE Throw("Invalid merge direction")

MergeImages(image1, image2) ==
    LET direction == DetermineMergeDirection(image1, image2)
    IN  IF direction.error # NoError THEN Throw(direction.error)
        ELSE MergeWith(direction.value, image1, image2)

(***************************************************************************)
(* State of one ImageVideoProcessor and of one call of                     *)
(* processImagesAndCreateVideo on it.                                      *)
(***************************************************************************)
VARIABLES
    imagePairs,    \* the argument: a sequence of [first, second]
    dirExists,     \* whether this.outputDir exists
    files,         \* the frame files of this.outputDir: number |-> [data, complete]
    pc,            \* where processImagesAndCreateVideo is
    tasks,         \* mergePromises: index |-> [pc, direction, buffer, error]
    mergeAll,      \* Promise.all(mergePromises): [state, error]
    thrown,        \* the error processImagesAndCreateVideo rethrew
    videoPromise,  \* the promise of createVideoFromImages: [state, error]
    passThrough,   \* the stream handed out: none, open, ended or errored
    ffmpegProc,    \* the encoder process
    events,        \* the events of the ffmpeg command whose handler has run
    chunks,        \* the output chunks piped into passThrough
    consumed,      \* the frames the encoder read, in its order
    image1,        \* layout functions: the first image
    image2,        \* layout functions: the second image
    applied,       \* layout functions: the function applied
    result         \* layout functions: what it returned

jobVars == <<imagePairs, dirExists, files, pc, tasks, mergeAll, thrown,
             videoPromise, passThrough, ffmpegProc, events, chunks, consumed>>
layoutVars == <<image1, image2, applied, result>>
vars == <<jobVars, layoutVars>>

\* the dimensions <<width1, height1, width2, height2>> the pairs of a call
\* are drawn from: one that merges top and bottom, one that merges side by
\* side, one whose first image has no width
PairShapes == { <<100, 200, 200, 100>>, <<100, 400, 100, 400>>, <<0, 200, 200, 100>> }

\* the pair at (1-based) position k with the dimensions s
PairOf(k, s) == [first |-> Image(2 * k - 1, s[1], s[2]),
                 second |-> Image(2 * k, s[3], s[4])]

\* the k-th frame an earlier job left in the folder
StaleFrame(k) ==
    [data |-> MergeTopAndBottom(Image(0 - (2 * k - 1), 100, 200),
                                Image(0 - 2 * k, 200, 100)).value,
     complete |-> TRUE]

NoBuffer == [width |-> 0, height |-> 0, composite |-> <<>>]
NoResult == [error |-> NoError, value |-> "none"]
Pending == [state |-> "pending", error |-> NoError]
NoPromise == [state |-> "none", error |-> NoError]

\* a promise settles once: resolve and reject of a settled promise do nothing
Resolve(p) == IF p.state = "pending" THEN [state |-> "resolved", error |-> NoError] ELSE p
Reject(p, e) == IF p.state = "pending" THEN [state |-> "rejected", error |-> e] ELSE p

JobIdle ==
    /\ pc = "new"
    /\ tasks = <<>>
    /\ mergeAll = NoPromise
    /\ thrown = NoError
    /\ videoPromise = NoPromise
    /\ passThrough = "none"
    /\ ffmpegProc = "none"
    /\ events = {}
    /\ chunks = 0
    /\ consumed = <<>>

LayoutIdle ==
    /\ image1 = Image(1, 1, 1)
    /\ image2 = Image(2, 1, 1)
    /\ applied = "none"
    /\ result = NoResult

\* after construction: the pairs the caller will pass, and a folder that is
\* new, or exists, or holds the frames 1..m of an earlier job
Init ==
    /\ \E n \in 0..MaxPairs : \E shapes \in [1..n -> PairShapes] :
           imagePairs = [k \in 1..n |-> PairOf(k, shapes[k])]
    /\ \E m \in 0..MaxStale :
           /\ files = [k \in 1..m |-> StaleFrame(k)]
           /\ dirExists \in (IF m = 0 THEN BOOLEAN ELSE {TRUE})
    /\ JobIdle
    /\ LayoutIdle

(***************************************************************************)
(* processImagesAndCreateVideo                                             *)
(***************************************************************************)
Indexes == 0..(Len(imagePairs) - 1)

\* Promise.race in the place of Promise.all: settled by the first task that settles
PromiseRace(cur, ts, rejection) ==
    IF cur.state # "pending" THEN cur
    ELSE IF rejection # NoError THEN [state |-> "rejected", error |-> rejection]
    ELSE IF \E i \in DOMAIN ts : ts[i].pc = "written"
         THEN [state |-> "fulfilled", error |-> NoError]
    ELSE cur

\* Promise.allSettled in the place of Promise.all: fulfilled once every task
\* has settled, whether it failed or not
PromiseAllSettled(cur, ts, rejection) ==
    IF cur.state # "pending" THEN cur
    ELSE IF \A i \in DOMAIN ts : ts[i].pc \in {"written", "failed"}
         THEN [state |-> "fulfilled", error |-> NoError]
    ELSE cur

\* Promise.all: rejected by the first rejection, fulfilled once every
\* promise is; called when a task has settled (rejection: its error if it
\* failed) or when the promises are handed over
PromiseAll(cur, ts, rejection) ==
    IF cur.state # "pending" THEN cur
    ELSE IF rejection # NoError THEN [state |-> "rejected", error |-> rejection]
    ELSE IF \A i \in DOMAIN ts : ts[i].pc = "written"
         THEN [state |-> "fulfilled", error |-> NoError]
    ELSE cur

\* the number in the name of the frame file of the pair at index
\* the frame named by the array index itself
OutputIndexZeroBased(index) == index

OutputIndex(index) == index + 1

\* fs.writeFile: creates the file or replaces its content
WriteFile(fs, k, content) ==
    [n \in DOMAIN fs \cup {k} |-> IF n = k THEN content ELSE fs[n]]

\* promise reactions run before the next I/O event is handled: while the
\* continuation of `await Promise.all` is due, no other callback runs
MicrotaskPending == pc = "awaitAll" /\ mergeAll.state # "pending"

unchangedEncoder == UNCHANGED <<videoPromise, passThrough, ffmpegProc, events, chunks, consumed>>

\* fs.mkdir called without await: the frame tasks start at once
CallWithoutAwaitingMkdir ==
    /\ pc = "new"
    /\ tasks' = [index \in Indexes |->
                   [pc |-> "direction", direction |-> "none",
                    buffer |-> NoBuffer, error |-> NoError]]
    /\ mergeAll' = PromiseAll(Pending, tasks', NoError)
    /\ pc' = "awaitAll"
    /\ UNCHANGED <<imagePairs, dirExists, files, thrown>>
    /\ unchangedEncoder
    /\ UNCHANGED layoutVars

\* processImagesAndCreateVideo is called: fs.mkdir is issued and awaited
Call ==
    /\ pc = "new"
    /\ pc' = "mkdir"
    /\ UNCHANGED <<imagePairs, dirExists, files, tasks, mergeAll, thrown>>
    /\ unchangedEncoder
    /\ UNCHANGED layoutVars

\* fs.mkdir(recursive) resolves; imagePairs.map starts every mergeImages,
\* each up to its first await, and Promise.all gets the promises
MkdirDone ==
    /\ pc = "mkdir"
    /\ dirExists' = TRUE
    /\ tasks' = [index \in Indexes |->
                   [pc |-> "direction", direction |-> "none",
                    buffer |-> NoBuffer, error |-> NoError]]
    /\ mergeAll' = PromiseAll(Pending, tasks', NoError)
    /\ pc' = "awaitAll"
    /\ UNCHANGED <<imagePairs, files, thrown>>
    /\ unchangedEncoder
    /\ UNCHANGED layoutVars

\* fs.mkdir rejects (it does not when the directory exists)
MkdirFailed ==
    /\ pc = "mkdir"
    /\ ~dirExists
    /\ pc' = "threw"
    /\ thrown' = MkdirFailure
    /\ UNCHANGED <<imagePairs, dirExists, files, tasks, mergeAll>>
    /\ unchangedEncoder
    /\ UNCHANGED layoutVars

TaskFails(index, e) ==
    /\ tasks' = [tasks EXCEPT ![index] = [@ EXCEPT !.pc = "failed", !.error = e]]
    /\ mergeAll' = PromiseAll(mergeAll, tasks', e)

\* mergeImages: determineMergeDirection has settled
TaskDirection(index) ==
    /\ tasks[index].pc = "direction"
    /\ ~MicrotaskPending
    /\ LET pair == imagePairs[index + 1]
           direction == DetermineMergeDirection(pair.first, pair.second)
       IN  IF direction.error # NoError
           THEN TaskFails(index, direction.error)
           ELSE /\ tasks' = [tasks EXCEPT ![index] =
                               [@ EXCEPT !.pc = "merge", !.direction = direction.value]]
                /\ UNCHANGED mergeAll
    /\ UNCHANGED <<imagePairs, dirExists, files, pc, thrown>>
    /\ unchangedEncoder
    /\ UNCHANGED layoutVars

\* mergeImages: the merge has returned its buffer, and the then-callback
\* issues fs.writeFile
TaskMerge(index) ==
    /\ tasks[index].pc = "merge"
    /\ ~MicrotaskPending
    /\ LET pair == imagePairs[index + 1]
           merged == MergeWith(tasks[index].direction, pair.first, pair.second)
       IN  IF merged.error # NoError
           THEN TaskFails(index, merged.error)
           ELSE /\ tasks' = [tasks EXCEPT ![index] =
                               [@ EXCEPT !.pc = "write", !.buffer = merged.value]]
                /\ UNCHANGED mergeAll
    /\ UNCHANGED <<imagePairs, dirExists, files, pc, thrown>>
    /\ unchangedEncoder
    /\ UNCHANGED layoutVars

\* mergeImages: sharp fails to composite
TaskMergeFailed(index) ==
    /\ tasks[index].pc = "merge"
    /\ ~MicrotaskPending
    /\ TaskFails(index, CompositionFailure)
    /\ UNCHANGED <<imagePairs, dirExists, files, pc, thrown>>
    /\ unchangedEncoder
    /\ UNCHANGED layoutVars

\* fs.writeFile has written the frame
TaskWriteDone(index) ==
    /\ tasks[index].pc = "write"
    /\ ~MicrotaskPending
    /\ files' = WriteFile(files, OutputIndex(index),
                          [data |-> tasks[index].buffer, complete |-> TRUE])
    /\ tasks' = [tasks EXCEPT ![index] = [@ EXCEPT !.pc = "written"]]
    /\ mergeAll' = PromiseAll(mergeAll, tasks', NoError)
    /\ UNCHANGED <<imagePairs, dirExists, pc, thrown>>
    /\ unchangedEncoder
    /\ UNCHANGED layoutVars

\* a rejected fs.writeFile caught and issued again
TaskWriteFailedRetried(index) ==
    /\ tasks[index].pc = "write"
    /\ ~MicrotaskPending
    /\ files' = WriteFile(files, OutputIndex(index),
                          [data |-> tasks[index].buffer, complete |-> FALSE])
    /\ UNCHANGED <<imagePairs, dirExists, pc, tasks, mergeAll, thrown>>
    /\ unchangedEncoder
    /\ UNCHANGED layoutVars

\* fs.writeFile rejects, before it opened the file or after it wrote a part
TaskWriteFailed(index) ==
    /\ tasks[index].pc = "write"
    /\ ~MicrotaskPending
    /\ \/ UNCHANGED files
       \/ files' = WriteFile(files, OutputIndex(index),
                             [data |-> tasks[index].buffer, complete |-> FALSE])
    /\ TaskFails(index, FrameWriteFailure)
    /\ UNCHANGED <<imagePairs, dirExists, pc, thrown>>
    /\ unchangedEncoder
    /\ UNCHANGED layoutVars

(***************************************************************************)
(* createVideoFromImages                                                   *)
(***************************************************************************)
\* the executor without its resolve(passThrough): the promise waits for a handler
ExecutorResolveLater(p) == p

\* .pipe(passThrough, { end: false })
PipeOptionsEndFalse == FALSE

\* the executor's resolve(passThrough), run right after .pipe()
ExecutorResolve(p) == Resolve(p)

\* the end option of .pipe(passThrough, { end: true })
PipeOptionsEnd == TRUE

\* the files the pattern %d.jpg matches: from the first of 0..4 that
\* exists, in numeric order up to the first gap
InputSequence(fs) ==
    LET starts == {k \in 0..4 : k \in DOMAIN fs}
    IN  IF starts = {} THEN <<>>
        ELSE LET first == CHOOSE k \in starts : \A l \in starts : k <= l
                 count == CHOOSE c \in 1..Cardinality(DOMAIN fs) :
                              /\ \A k \in first..(first + c - 1) : k \in DOMAIN fs
                              /\ (first + c) \notin DOMAIN fs
             IN  [k \in 1..count |-> [file |-> first + k - 1, frame |-> fs[first + k - 1]]]

\* the continuation of `await Promise.all(mergePromises)`: it calls
\* createVideoFromImages and returns its promise, or the catch rethrows
ResumeAfterAll ==
    /\ pc = "awaitAll"
    /\ mergeAll.state # "pending"
    /\ IF mergeAll.state = "fulfilled"
       THEN /\ passThrough' = "open"
            /\ ffmpegProc' = "spawning"
            /\ videoPromise' = ExecutorResolve(Pending)
            /\ pc' = "returned"
            /\ UNCHANGED thrown
       ELSE /\ pc' = "threw"
            /\ thrown' = mergeAll.error
            /\ UNCHANGED <<passThrough, ffmpegProc, videoPromise>>
    /\ UNCHANGED <<imagePairs, dirExists, files, tasks, mergeAll, events, chunks, consumed>>
    /\ UNCHANGED layoutVars

\* ffmpeg is spawned: the 'start' handler logs, ffmpeg opens its input and
\* its stdout is piped into passThrough
FfmpegSpawned ==
    /\ ffmpegProc = "spawning"
    /\ ffmpegProc' = "running"
    /\ events' = events \cup {"start"}
    /\ consumed' = InputSequence(files)
    /\ UNCHANGED <<imagePairs, dirExists, files, pc, tasks, mergeAll, thrown,
                   videoPromise, passThrough, chunks>>
    /\ UNCHANGED layoutVars

\* ffmpeg cannot be spawned: the 'error' handler logs and calls reject(err)
FfmpegSpawnFailed ==
    /\ ffmpegProc = "spawning"
    /\ ffmpegProc' = "spawnFailed"
    /\ events' = events \cup {"error"}
    /\ videoPromise' = Reject(videoPromise, EncodeInitiationFailure)
    /\ UNCHANGED <<imagePairs, dirExists, files, pc, tasks, mergeAll, thrown,
                   passThrough, chunks, consumed>>
    /\ UNCHANGED layoutVars

\* ffmpeg writes a part of the video, which the pipe passes on
FfmpegOutput ==
    /\ ffmpegProc = "running"
    /\ consumed # <<>>
    /\ chunks < MaxChunks
    /\ chunks' = chunks + 1
    /\ UNCHANGED <<imagePairs, dirExists, files, pc, tasks, mergeAll, thrown,
                   videoPromise, passThrough, ffmpegProc, events, consumed>>
    /\ UNCHANGED layoutVars

\* ffmpeg exits with code 0; it cannot when it found no frame
FfmpegExitOk ==
    /\ ffmpegProc = "running"
    /\ consumed # <<>>
    /\ ffmpegProc' = "exitedOk"
    /\ UNCHANGED <<imagePairs, dirExists, files, pc, tasks, mergeAll, thrown,
                   videoPromise, passThrough, events, chunks, consumed>>
    /\ UNCHANGED layoutVars

\* the encoder started again after it failed
FfmpegExitErrorRetried ==
    /\ ffmpegProc = "running"
    /\ ffmpegProc' = "spawning"
    /\ UNCHANGED <<imagePairs, dirExists, files, pc, tasks, mergeAll, thrown,
                   videoPromise, passThrough, events, chunks, consumed>>
    /\ UNCHANGED layoutVars

\* ffmpeg exits with an error or is killed
FfmpegExitError ==
    /\ ffmpegProc = "running"
    /\ ffmpegProc' = "exitedError"
    /\ UNCHANGED <<imagePairs, dirExists, files, pc, tasks, mergeAll, thrown,
                   videoPromise, passThrough, events, chunks, consumed>>
    /\ UNCHANGED layoutVars

\* the 'end' handler: it logs
OnEnd ==
    /\ ffmpegProc = "exitedOk"
    /\ "end" \notin events
    /\ events' = events \cup {"end"}
    /\ UNCHANGED <<imagePairs, dirExists, files, pc, tasks, mergeAll, thrown,
                   videoPromise, passThrough, ffmpegProc, chunks, consumed>>
    /\ UNCHANGED layoutVars

\* the 'error' handler: it logs and calls reject(err)
OnError ==
    /\ ffmpegProc = "exitedError"
    /\ "error" \notin events
    /\ events' = events \cup {"error"}
    /\ videoPromise' = Reject(videoPromise, EncodeRuntimeFailure)
    /\ UNCHANGED <<imagePairs, dirExists, files, pc, tasks, mergeAll, thrown,
                   passThrough, ffmpegProc, chunks, consumed>>
    /\ UNCHANGED layoutVars

\* the stdout of the exited process ends, and the pipe ends passThrough
PipeEnd ==
    /\ ffmpegProc \in {"exitedOk", "exitedError"}
    /\ passThrough = "open"
    /\ PipeOptionsEnd
    /\ passThrough' = "ended"
    /\ UNCHANGED <<imagePairs, dirExists, files, pc, tasks, mergeAll, thrown,
                   videoPromise, ffmpegProc, events, chunks, consumed>>
    /\ UNCHANGED layoutVars

\* the promise processImagesAndCreateVideo returned to its caller
JobPromise ==
    IF pc = "new" THEN NoPromise
    ELSE IF pc = "threw" THEN [state |-> "rejected", error |-> thrown]
    ELSE IF pc = "returned" THEN videoPromise
    ELSE Pending

Next ==
    \/ Call
    \/ MkdirDone
    \/ MkdirFailed
    \/ \E index \in DOMAIN tasks : TaskDirection(index)
    \/ \E index \in DOMAIN tasks : TaskMerge(index)
    \/ \E index \in DOMAIN tasks : TaskMergeFailed(index)
    \/ \E index \in DOMAIN tasks : TaskWriteDone(index)
    \/ \E index \in DOMAIN tasks : TaskWriteFailed(index)
    \/ ResumeAfterAll
    \/ FfmpegSpawned
    \/ FfmpegSpawnFailed
    \/ FfmpegOutput
    \/ FfmpegExitOk
    \/ FfmpegExitError
    \/ OnEnd
    \/ OnError
    \/ PipeEnd

Spec == Init /\ [][Next]_vars

\* the pipe passes the end of ffmpeg's output on
SpecFair == Spec /\ WF_vars(PipeEnd)

(***************************************************************************)
(* The layout and composite functions on their own: two images with        *)
(* metadata, and one function applied to them.                             *)
(***************************************************************************)
InitLayout ==
    /\ \E w \in 1..MaxWidth : \E h \in 1..MaxHeight : image1 = Image(1, w, h)
    /\ \E w \in 1..MaxWidth : \E h \in 1..MaxHeight : image2 = Image(2, w, h)
    /\ applied = "none"
    /\ result = NoResult
    /\ imagePairs = <<>>
    /\ dirExists = FALSE
    /\ files = <<>>
    /\ JobIdle

Apply(name, value) ==
    /\ applied = "none"
    /\ applied' = name
    /\ result' = value
    /\ UNCHANGED <<image1, image2>>
    /\ UNCHANGED jobVars

ApplyDetermineMergeDirection ==
    Apply("determineMergeDirection", DetermineMergeDirection(image1, image2))

ApplyMergeSideBySide == Apply("mergeSideBySide", MergeSideBySide(image1, image2))

ApplyMergeTopAndBottom == Apply("mergeTopAndBottom", MergeTopAndBottom(image1, image2))

ApplyMergeImages == Apply("mergeImages", MergeImages(image1, image2))

NextLayout ==
    \/ ApplyDetermineMergeDirection
    \/ ApplyMergeSideBySide
    \/ ApplyMergeTopAndBottom
    \/ ApplyMergeImages

SpecLayout == InitLayout /\ [][NextLayout]_vars

(***************************************************************************)
(* Properties.                                                             *)
(***************************************************************************)
Failed == {index \in DOMAIN tasks : tasks[index].pc = "failed"}

\* the frame file of the pair at (1-based) position i, written in full
FrameOf(i) ==
    [data |-> MergeImages(imagePairs[i].first, imagePairs[i].second).value,
     complete |-> TRUE]

HasMetadata(pair) ==
    /\ pair.first.width # 0 /\ pair.first.height # 0
    /\ pair.second.width # 0 /\ pair.second.height # 0

\* C1: when processImagesAndCreateVideo succeeds, the output directory
\* contains exactly the frame files 1.jpg..N.jpg, and i.jpg holds the
\* composite of pairs[i-1] and of no other pair.  (Stated for the calls
\* with at least one pair.)
C1_ExactlyFramesOneToN ==
    (pc = "returned" /\ Len(imagePairs) >= 1) =>
        /\ DOMAIN files = 1..Len(imagePairs)
        /\ \A i \in 1..Len(imagePairs) : files[i] = FrameOf(i)

\* C2: the encoder is started only after every one of the N frame files has
\* been written: in no state is createVideoFromImages invoked while a frame
\* of 1..N is unwritten or being written.
C2_EncoderStartsAfterEveryWrite ==
    ffmpegProc # "none" =>
        /\ DOMAIN tasks = Indexes
        /\ \A index \in Indexes :
              /\ tasks[index].pc = "written"
              /\ (index + 1) \in DOMAIN files
              /\ files[index + 1].complete

C2_Witness ==
    /\ ffmpegProc = "running"
    /\ Len(imagePairs) >= 2
    /\ \A index \in Indexes : tasks[index].pc = "written"

C4_EncoderFailureErrorsTheStream ==
    ffmpegProc = "exitedError" =>
        /\ passThrough # "ended"
        /\ "error" \in events => passThrough = "errored"

\* C5: if the encoder process cannot be spawned, the promise of
\* processImagesAndCreateVideo rejects or the stream signals an error: the
\* caller never holds a resolved promise and a stream without a failure
\* signal.
C5_SpawnFailureReachesTheCaller ==
    ffmpegProc = "spawnFailed" =>
        \/ JobPromise.state = "rejected"
        \/ passThrough = "errored"

\* C6: createVideoFromImages resolves with the stream as soon as encoding
\* is initiated, without waiting for the 'end' or 'error' event: from the
\* moment the encoder is initiated the caller holds the open stream.
C6_StreamReturnedOnInitiation ==
    ffmpegProc # "none" =>
        /\ videoPromise.state = "resolved"
        /\ JobPromise.state = "resolved"
        /\ passThrough # "none"
        /\ ffmpegProc = "spawning" => passThrough = "open" /\ events = {}

C6_Witness ==
    /\ JobPromise.state = "resolved"
    /\ passThrough = "open"
    /\ ffmpegProc = "running"
    /\ chunks > 0
    /\ events \cap {"end", "error"} = {}

\* C7: if the encoder process finishes without error then, the pipe passing
\* the end of its output on, the stream eventually ends normally, and it
\* never signals an error.
C7_CleanExitEndsTheStream ==
    /\ (ffmpegProc = "exitedOk") ~> (passThrough = "ended")
    /\ [](ffmpegProc = "exitedOk" => passThrough # "errored")

C7_Witness ==
    /\ ffmpegProc = "exitedOk"
    /\ "end" \in events
    /\ passThrough = "ended"

Abs(n) == IF n < 0 THEN 0 - n ELSE n

\* |a/b - 9/16| < |c/d - 9/16| in exact arithmetic, for b, d > 0
StrictlyCloserToIdeal(a, b, c, d) == Abs(16 * a - 9 * b) * d < Abs(16 * c - 9 * d) * b

\* C8: for all positive dimensions, determineMergeDirection returns
\* HORIZONTAL if and only if |(wA+wB)/max(hA,hB) - 9/16| is strictly
\* smaller than |max(wA,wB)/(hA+hB) - 9/16|, and VERTICAL otherwise, also
\* when the two distances are equal.
C8_HorizontalIffStrictlyCloser ==
    applied = "determineMergeDirection" =>
        /\ result.error = NoError
        /\ result.value \in {HORIZONTAL, VERTICAL}
        /\ result.value = HORIZONTAL <=>
               StrictlyCloserToIdeal(image1.width + image2.width,
                                     Max(image1.height, image2.height),
                                     Max(image1.width, image2.width),
                                     image1.height + image2.height)

\* t = floor(n / 2)
IsFloorOfHalf(t, n) == 2 * t <= n /\ n < 2 * t + 2

\* C9: mergeSideBySide uses a canvas of width wA+wB and height max(hA,hB),
\* places A at left 0 and B at left wA, each at the top offset
\* floor((canvasHeight - imageHeight)/2): for h1 < h2 the shorter image is
\* at floor((h2-h1)/2) and the taller at 0, and for equal dimensions w x h
\* the canvas is 2w x h with both offsets 0.
C9_SideBySideCanvas ==
    applied = "mergeSideBySide" =>
        /\ result.error = NoError
        /\ result.value.width = image1.width + image2.width
        /\ result.value.height = Max(image1.height, image2.height)
        /\ Len(result.value.composite) = 2
        /\ LET a == result.value.composite[1]
               b == result.value.composite[2]
           IN  /\ a.input = image1.id /\ a.left = 0
               /\ b.input = image2.id /\ b.left = image1.width
               /\ IsFloorOfHalf(a.top, result.value.height - image1.height)
               /\ IsFloorOfHalf(b.top, result.value.height - image2.height)
               /\ image1.height < image2.height =>
                      /\ IsFloorOfHalf(a.top, image2.height - image1.height)
                      /\ b.top = 0
               /\ image2.height < image1.height =>
                      /\ IsFloorOfHalf(b.top, image1.height - image2.height)
                      /\ a.top = 0
               /\ (image1.width = image2.width /\ image1.height = image2.height) =>
                      /\ result.value.width = 2 * image1.width
                      /\ result.value.height = image1.height
                      /\ a.top = 0 /\ b.top = 0

C9_Witness ==
    /\ applied = "mergeSideBySide"
    /\ image1.height + 3 = image2.height
    /\ result.value.composite[1].top = 1
    /\ result.value.composite[2].top = 0

\* C10: mergeTopAndBottom uses a canvas of height hA+hB and width
\* max(wA,wB), places A at top 0 and B at top hA, each at the left offset
\* floor((canvasWidth - imageWidth)/2); for equal dimensions w x h the
\* canvas is w x 2h with both left offsets 0.
C10_TopAndBottomCanvas ==
    applied = "mergeTopAndBottom" =>
        /\ result.error = NoError
        /\ result.value.height = image1.height + image2.height
        /\ result.value.width = Max(image1.width, image2.width)
        /\ Len(result.value.composite) = 2
        /\ LET a == result.value.composite[1]
               b == result.value.composite[2]
           IN  /\ a.input = image1.id /\ a.top = 0
               /\ b.input = image2.id /\ b.top = image1.height
               /\ IsFloorOfHalf(a.left, result.value.width - image1.width)
               /\ IsFloorOfHalf(b.left, result.value.width - image2.width)
               /\ (image1.width = image2.width /\ image1.height = image2.height) =>
                      /\ result.value.width = image1.width
                      /\ result.value.height = 2 * image1.height
                      /\ a.left = 0 /\ b.left = 0

C10_Witness ==
    /\ applied = "mergeTopAndBottom"
    /\ image1.width = image2.width + 5
    /\ result.value.composite[1].left = 0
    /\ result.value.composite[2].left = 2

\* the state of the encoder lifecycle
EncoderState ==
    CASE ffmpegProc = "none" -> "NOT_STARTED"
      [] ffmpegProc = "spawning" -> "STARTED"
      [] ffmpegProc = "running" -> "STREAMING"
      [] ffmpegProc = "exitedOk" -> "ENDED"
      [] ffmpegProc \in {"exitedError", "spawnFailed"} -> "FAILED"

EncoderRank(state) ==
    CASE state = "NOT_STARTED" -> 0
      [] state = "STARTED" -> 1
      [] state = "STREAMING" -> 2
      [] state \in {"ENDED", "FAILED"} -> 3

\* C12: the encoder lifecycle of one call only moves forward through
\* NOT_STARTED, STARTED, STREAMING and then one of ENDED or FAILED: ENDED
\* and FAILED are terminal and exclude each other, no state is entered
\* again, and at most one encoder process is started per call.
C12_EncoderLifecycleMovesForward ==
    [][ /\ EncoderState' # EncoderState =>
              EncoderRank(EncoderState') > EncoderRank(EncoderState)
        /\ EncoderState \in {"ENDED", "FAILED"} => ffmpegProc' = ffmpegProc
        /\ EncoderState' = "STARTED" => EncoderState \in {"NOT_STARTED", "STARTED"}
        /\ EncoderState' \in {"ENDED", "FAILED"} =>
              EncoderState \in {"STARTED", "STREAMING", EncoderState'}
        /\ ("end" \in events' /\ "error" \in events') = FALSE
      ]_vars

C12_Witness ==
    /\ EncoderState = "FAILED"
    /\ ffmpegProc = "exitedError"
    /\ {"start", "error"} \subseteq events
    /\ passThrough = "ended"

\* the canvas of a merge result
Canvas(merged) == <<merged.value.width, merged.value.height>>

Wrote ==
    {index \in DOMAIN tasks :
        \/ tasks[index].pc = "written"
        \/ /\ tasks[index].pc = "failed"
           /\ tasks[index].error = FrameWriteFailure
           /\ index + 1 \in DOMAIN files
           /\ ~files[index + 1].complete}

\* C14: in every reachable state, also after one pair has failed while the
\* tasks of other pairs are in flight or complete later, every frame file
\* i.jpg written by the job holds the composite of pairs[i-1]; the failure
\* of a pair never makes another pair's frame appear under another index.
C14_FramesKeepTheirIndex ==
    /\ \A index \in DOMAIN tasks :
          tasks[index].pc = "written" =>
              /\ index + 1 \in DOMAIN files
              /\ files[index + 1] = FrameOf(index + 1)
    /\ \A k \in DOMAIN files :
          \/ files[k] = StaleFrame(k)
          \/ /\ k \in 1..Len(imagePairs)
             /\ k - 1 \in Wrote
             /\ files[k].data = FrameOf(k).data

C14_Witness ==
    /\ pc = "threw"
    /\ \E failed \in Failed : \E index \in DOMAIN tasks :
          /\ failed < index
          /\ tasks[index].pc = "written"
          /\ files[index + 1] = FrameOf(index + 1)
          /\ failed + 1 \notin DOMAIN files

\* how far a task has come; 3 is settled
TaskRank(task) ==
    CASE task.pc = "direction" -> 0
      [] task.pc = "merge" -> 1
      [] task.pc = "write" -> 2
      [] task.pc \in {"written", "failed"} -> 3

\* the file at a path: <<>> when there is none
FileAt(fs, k) == IF k \in DOMAIN fs THEN <<fs[k]>> ELSE <<>>

\* C15: nothing is retried: within one job each pair is composited at most
\* once and each frame path i.jpg is written at most once, and after a
\* failed dimension read, composite, frame write or encode the job makes
\* no second attempt of that operation.
C15_NothingIsRetried ==
    [][ /\ tasks # <<>> => DOMAIN tasks' = DOMAIN tasks
        /\ \A index \in DOMAIN tasks :
              LET before == tasks[index]
                  after == tasks'[index]
                  path == index + 1
              IN  /\ TaskRank(after) >= TaskRank(before)
                  /\ TaskRank(before) = 3 => after = before
                  /\ after.direction # before.direction =>
                        before.pc = "direction" /\ after.pc = "merge"
                  /\ after.buffer # before.buffer =>
                        before.pc = "merge" /\ after.pc = "write"
                  /\ FileAt(files', path) # FileAt(files, path) =>
                        before.pc = "write" /\ TaskRank(after) = 3
        /\ \A k \in (DOMAIN files \cup DOMAIN files') \ {index + 1 : index \in DOMAIN tasks} :
              FileAt(files', k) = FileAt(files, k)
        /\ pc \in {"threw", "returned"} => pc' = pc
        /\ ffmpegProc' = "spawning" => ffmpegProc \in {"none", "spawning"}
        /\ ffmpegProc \in {"spawnFailed", "exitedError", "exitedOk"} =>
              ffmpegProc' = ffmpegProc
        /\ mergeAll.state \in {"fulfilled", "rejected"} => mergeAll' = mergeAll
      ]_vars

C15_Witness ==
    /\ pc = "threw"
    /\ thrown = FrameWriteFailure
    /\ \E index \in Failed :
          /\ tasks[index].error = FrameWriteFailure
          /\ index + 1 \in DOMAIN files
          /\ ~files[index + 1].complete
    /\ \A index \in DOMAIN tasks : TaskRank(tasks[index]) = 3

\* the tasks that have issued their fs.writeFile
WriteIssued ==
    {index \in DOMAIN tasks :
        \/ tasks[index].pc \in {"write", "written"}
        \/ tasks[index].pc = "failed" /\ tasks[index].error = FrameWriteFailure}

\* C16: the output directory is created before any frame write is issued:
\* no frame write of a job begins before the recursive directory creation
\* has completed, and directory creation succeeds when the directory
\* already exists.
C16_DirectoryBeforeFrameWrites ==
    /\ WriteIssued # {} => dirExists /\ pc \notin {"new", "mkdir"}
    /\ pc \in {"new", "mkdir"} => tasks = <<>>
    /\ files # <<>> => dirExists
    /\ (pc = "threw" /\ thrown = MkdirFailure) => ~dirExists /\ tasks = <<>>

C16_Witness ==
    /\ \E k \in DOMAIN files : files[k] = StaleFrame(k)
    /\ \E index \in DOMAIN tasks :
          /\ tasks[index].pc = "written"
          /\ files[index + 1] = FrameOf(index + 1)
    /\ dirExists

\* the promise of the job has settled
Settled == JobPromise.state \in {"resolved", "rejected"}

\* C17 as stated: once the promise returned by processImagesAndCreateVideo
\* has settled, resolved or rejected, the job issues no further frame write
\* into its output directory.  The code does not keep this after a
\* rejection.
C17_NoFrameWriteAfterSettlement ==
    [][Settled => files' = files]_vars

\* C17: once the promise returned by processImagesAndCreateVideo has
\* resolved, the job issues no further frame write; after a rejection the
\* tasks of the other pairs are not cancelled, and each may still write
\* its own frame file, and no other file.
C17_NoFrameWriteAfterResolution ==
    [][ /\ JobPromise.state = "resolved" => files' = files
        /\ (JobPromise.state = "rejected" /\ files' # files) =>
              \E index \in DOMAIN tasks :
                  /\ tasks[index].pc = "write"
                  /\ tasks'[index].pc \in {"written", "failed"}
                  /\ DOMAIN files' = DOMAIN files \cup {index + 1}
                  /\ \A k \in DOMAIN files' \ {index + 1} : files'[k] = files[k]
                  /\ files'[index + 1].data = FrameOf(index + 1).data
      ]_vars

\* a task's write failed after the job had been rejected for another
\* reason, and left a part of its frame file
C17_Witness ==
    /\ JobPromise.state = "rejected"
    /\ JobPromise.error # FrameWriteFailure
    /\ \E index \in Failed :
          /\ tasks[index].error = FrameWriteFailure
          /\ index + 1 \in DOMAIN files
          /\ files[index + 1].data = FrameOf(index + 1).data
          /\ ~files[index + 1].complete

\* C18: the frames the encoder consumes for a job of N pairs are exactly
\* the frames 1..N written by that job, also when the output directory
\* already holds frame files left by an earlier job in the same folder:
\* the encoder's input sequence contains no frame the job did not write.
\* (Stated for the jobs with at least one pair.)  The code does not keep
\* this when the folder holds more frames than the job has pairs.
C18_EncoderConsumesThisJobsFrames ==
    (ffmpegProc \in {"running", "exitedOk", "exitedError"} /\ Len(imagePairs) >= 1) =>
        consumed = [k \in 1..Len(imagePairs) |-> [file |-> k, frame |-> FrameOf(k)]]

====
